---- MODULE Spec2Model ----
(***************************************************************************)
(* Model of the aggregation and transformation core of src/main.py:        *)
(* DataElement (a day's counts), CountryData (a region's day-map with      *)
(* get_last and get_data) and Data (the region map built by __init__,      *)
(* extended by add and ranked by get_countries).                           *)
(*                                                                         *)
(* Python objects have identity: every DataElement lives in `heap` and a   *)
(* day-map stores object ids, so that storing or mutating an argument      *)
(* object is something the model can show.                                 *)
(*                                                                         *)
(* A Python string is modelled as the sequence of its tokens, a token      *)
(* being either one whitespace character or a maximal run of               *)
(* non-whitespace characters: "Mainland China" is                          *)
(* <<"Mainland", " ", "China">>.                                           *)
(*                                                                         *)
(* A Python float produced by the true division of two integers is         *)
(* modelled as the exact rational, kept in lowest terms with a positive    *)
(* denominator; floating-point rounding is not modelled.                   *)
(***************************************************************************)
EXTENDS Integers, Sequences, FiniteSets, TLC

VARIABLES
    pc,     \* position in the program: "rows" (Data.__init__ reading rows),
            \* "done" (Data constructed), "failed" (Data.__init__ raised),
            \* "series" (a CountryData constructed on its own)
    keys,   \* insertion order of the keys of Data.data
    data,   \* Data.data: region name -> CountryData.data (day -> object id)
    heap,   \* the DataElement objects, by object id (1..Len(heap))
    owned,  \* ids of the DataElement objects a caller of Data.add holds
    log,    \* history: the calls of Data.add so far, with the argument values
    ret     \* outcome of the most recent call

vars == <<pc, keys, data, heap, owned, log, ret>>

----------------------------------------------------------------------------
(* Bounds of the model *)

\* additions (ingested rows plus direct calls of Data.add) besides the seed
MaxAdds == 2
\* DataElement objects constructed by a caller of Data.add
MaxOwned == 1
\* days of a CountryData drawn for the queries get_last and get_data
MaxDays == 4
\* largest smoothing window passed to get_data
MaxWindow == 3
\* most negative smoothing window passed to get_data is -MaxNegWindow
MaxNegWindow == 3

----------------------------------------------------------------------------
(* Strings and the alias table *)

Whitespace == {" ", "\t", "\n"}

ALIASES ==
    (<<"Bahamas,", " ", "The">> :> <<"Bahamas">>) @@
    (<<"Czechia">> :> <<"Czech", " ", "Republic">>) @@
    (<<"Russian", " ", "Federation">> :> <<"Russia">>) @@
    (<<"Iran", " ", "(Islamic", " ", "Republic", " ", "of)">> :> <<"Iran">>) @@
    (<<"Mainland", " ", "China">> :> <<"China">>) @@
    (<<"Republic", " ", "of", " ", "Korea">> :> <<"South", " ", "Korea">>) @@
    (<<"Republic", " ", "of", " ", "Moldova">> :> <<"Moldova">>) @@
    (<<"Korea,", " ", "South">> :> <<"South", " ", "Korea">>) @@
    (<<"Taiwan*">> :> <<"Taiwan">>) @@
    (<<"UK">> :> <<"United", " ", "Kingdom">>) @@
    (<<"US">> :> <<"United", " ", "States">>)

RECURSIVE LStrip(_)
LStrip(s) ==
    IF s # <<>> /\ Head(s) \in Whitespace THEN LStrip(Tail(s)) ELSE s

RECURSIVE RStrip(_)
RStrip(s) ==
    IF s # <<>> /\ s[Len(s)] \in Whitespace
    THEN RStrip(SubSeq(s, 1, Len(s) - 1))
    ELSE s

\* str.strip()
Strip(s) == RStrip(LStrip(s))

\* find_key: the value of the first of `ks` the dictionary has, else None.
\* An optional value is a sequence: <<>> is None, <<v>> is the value v.
None == <<>>

RECURSIVE find_key(_, _)
find_key(dictionary, ks) ==
    IF ks = <<>> THEN None
    ELSE IF Head(ks) \in DOMAIN dictionary THEN <<dictionary[Head(ks)]>>
    ELSE find_key(dictionary, Tail(ks))

\* the canonicalization of Data.__init__: strip, then exact-match substitution
CanonicalizeNoAlias(raw) == Strip(raw)

Canonicalize(raw) ==
    LET country == Strip(raw)
    IN  IF country \in DOMAIN ALIASES THEN ALIASES[country] ELSE country

----------------------------------------------------------------------------
(* DataElement *)

DataElement(confirmed, deaths, recovered) ==
    [confirmed |-> confirmed, deaths |-> deaths, recovered |-> recovered]

DataElementAddOverwrite(self, other) == other

\* DataElement.add: the value of `self` after self.add(other)
DataElementAdd(self, other) ==
    [confirmed |-> self.confirmed + other.confirmed,
     deaths    |-> self.deaths + other.deaths,
     recovered |-> self.recovered + other.recovered]

----------------------------------------------------------------------------
(* CountryData *)

EmptyMap == [d \in {} |-> 0]

CountryDataAddStoreArg(cd, h, time, element) ==
    IF time \notin DOMAIN cd
    THEN [data |-> (time :> element) @@ cd, heap |-> h]
    ELSE [data |-> cd,
          heap |-> [h EXCEPT ![cd[time]] = DataElementAdd(h[cd[time]], h[element])]]

\* CountryData.add(time, element) on the day-map cd with heap h
CountryDataAdd(cd, h, time, element) ==
    LET fresh  == time \notin DOMAIN cd
        h1     == IF fresh THEN Append(h, DataElement(0, 0, 0)) ELSE h
        cd1    == IF fresh THEN (time :> Len(h1)) @@ cd ELSE cd
        target == cd1[time]
    IN  [data |-> cd1,
         heap |-> [h1 EXCEPT ![target] = DataElementAdd(h1[target], h1[element])]]

----------------------------------------------------------------------------
(* Python built-ins used by the queries *)

Max(a, b) == IF a >= b THEN a ELSE b
Min(a, b) == IF a <= b THEN a ELSE b

\* sorted(S) for a set S of integers (the days of a day-map)
RECURSIVE SortedSet(_)
SortedSet(S) ==
    IF S = {} THEN <<>>
    ELSE LET m == CHOOSE x \in S : \A y \in S : x <= y
         IN  <<m>> \o SortedSet(S \ {m})

RECURSIVE Sum(_)
Sum(s) == IF s = <<>> THEN 0 ELSE Head(s) + Sum(Tail(s))

\* a slice index of a list of length n, as Python clips it
SliceIndex(i, n) == IF i < 0 THEN Max(i + n, 0) ELSE Min(i, n)

\* list[start:stop]
PySlice(list, start, stop) ==
    SubSeq(list, SliceIndex(start, Len(list)) + 1, SliceIndex(stop, Len(list)))

RECURSIVE Gcd(_, _)
Gcd(a, b) == IF b = 0 THEN a ELSE Gcd(b, a % b)

Abs(a) == IF a < 0 THEN -a ELSE a

\* n / d for d # 0: the quotient in lowest terms, denominator positive
Rat(n, d) ==
    LET g == Gcd(Abs(n), Abs(d))
        s == IF d < 0 THEN -1 ELSE 1
    IN  [num |-> (s * n) \div g, den |-> (s * d) \div g]

----------------------------------------------------------------------------
(* CountryData.get_last and CountryData.get_data *)

Threshold == 100

\* the confirmed counts of the day-map in the order of sorted(self.data.keys())
Confirmed(cd, h) ==
    LET days == SortedSet(DOMAIN cd)
    IN  [i \in 1..Len(days) |-> h[cd[days[i]]].confirmed]

get_last_first_day(cd, h) ==
    LET days == SortedSet(DOMAIN cd)
    IN  IF days = <<>>
        THEN [status |-> "IndexError", value |-> DataElement(0, 0, 0)]
        ELSE [status |-> "ok", value |-> h[cd[days[1]]]]

\* get_last: self.data[sorted(self.data.keys())[-1]]
get_last(cd, h) ==
    LET days == SortedSet(DOMAIN cd)
    IN  IF days = <<>>
        THEN [status |-> "IndexError", value |-> DataElement(0, 0, 0)]
        ELSE [status |-> "ok", value |-> h[cd[days[Len(days)]]]]

RECURSIVE First100IndexAtLeast(_)
First100IndexAtLeast(C) ==
    IF C = <<>> THEN 0
    ELSE IF Head(C) >= Threshold THEN 0
    ELSE 1 + First100IndexAtLeast(Tail(C))

\* the loop that counts first_100_index over the sorted days
RECURSIVE First100Index(_)
First100Index(C) ==
    IF C = <<>> THEN 0
    ELSE IF Head(C) > Threshold THEN 0
    ELSE 1 + First100Index(Tail(C))

XDataFullRange(n, average, first_100_index) ==
    [i \in 1..n |-> (i - 1) - first_100_index]

\* x_data: index - first_100_index for index in range(len(self.data) - average)
XData(n, average, first_100_index) ==
    [i \in 1..Max(n - average, 0) |-> (i - 1) - first_100_index]

YDataClamped(C) ==
    [i \in 1..Len(C) |-> Max(C[i] - (IF i = 1 THEN 0 ELSE C[i - 1]), 0)]

\* y_data: value - last_value over the sorted days, last_value starting at 0
YData(C) ==
    [i \in 1..Len(C) |-> C[i] - (IF i = 1 THEN 0 ELSE C[i - 1])]

YAverageTrailing(y_data, average) ==
    [i \in 1..Max(Len(y_data) - average, 0) |->
        Rat(Sum(PySlice(y_data, Max(i - 1 - average, 0), i)), average + 1)]

\* y_average, for average # -1:
\* sum(y_data[index:index + average + 1]) / (average + 1)
\* for index in range(len(y_data) - average)
YAverage(y_data, average) ==
    [i \in 1..Max(Len(y_data) - average, 0) |->
        Rat(Sum(PySlice(y_data, i - 1, (i - 1) + average + 1)), average + 1)]

\* get_data(average): (x_data, y_average), or the exception it raises
get_data(cd, h, average) ==
    LET C      == Confirmed(cd, h)
        x_data == XData(Len(C), average, First100Index(C))
        y_data == YData(C)
    IN  IF average + 1 = 0 /\ Len(y_data) - average > 0
        THEN [status |-> "ZeroDivisionError", x |-> <<>>, y |-> <<>>]
        ELSE [status |-> "ok", x |-> x_data, y |-> YAverage(y_data, average)]

----------------------------------------------------------------------------
(* Data *)

\* Data.add(country, time, element) on the store S = [keys, data, heap]
DataAdd(S, country, time, element) ==
    LET isNew == country \notin DOMAIN S.data
        cd    == IF isNew THEN EmptyMap ELSE S.data[country]
        r     == CountryDataAdd(cd, S.heap, time, element)
    IN  [keys |-> IF isNew THEN Append(S.keys, country) ELSE S.keys,
         data |-> (country :> r.data) @@ S.data,
         heap |-> r.heap]

\* list.sort / sorted(list, key): stable, ascending in key[x]
RECURSIVE InsertByKey(_, _, _)
InsertByKey(sorted, x, key) ==
    IF sorted = <<>> THEN <<x>>
    ELSE IF key[Head(sorted)] <= key[x]
         THEN <<Head(sorted)>> \o InsertByKey(Tail(sorted), x, key)
         ELSE <<x>> \o sorted

RECURSIVE PySorted(_, _)
PySorted(list, key) ==
    IF list = <<>> THEN <<>>
    ELSE InsertByKey(PySorted(SubSeq(list, 1, Len(list) - 1), key),
                     list[Len(list)], key)

\* get_countries: sorted(self.data.values(),
\*                       key=lambda x: -x.get_last().confirmed),
\* the CountryData objects named by their keys
get_countries(S) ==
    LET names == {S.keys[i] : i \in 1..Len(S.keys)}
        last  == [c \in names |-> get_last(S.data[c], S.heap)]
    IN  IF \E c \in names : last[c].status # "ok"
        THEN [status |-> "IndexError", countries |-> <<>>]
        ELSE [status |-> "ok",
              countries |->
                  PySorted(S.keys, [c \in names |-> -last[c].value.confirmed])]

\* the hardcoded points added at the end of Data.__init__
SeedCountry == <<"China">>

SeedPoints ==
    << [time |-> 17, confirmed |-> 17],
       [time |-> 18, confirmed |-> 59],
       [time |-> 19, confirmed |-> 77],
       [time |-> 20, confirmed |-> 77],
       [time |-> 21, confirmed |-> 149] >>

----------------------------------------------------------------------------
(* Inputs *)

\* the dates of the input files (days of January 2020, as the seed's are)
FileDays == {21, 22}

\* a field of a csv row: <<>> is the empty text, <<n>> the decimal text of n
Row(header, name, confirmed, deaths, recovered) ==
    (header :> name) @@ ("Confirmed" :> confirmed) @@
    ("Deaths" :> deaths) @@ ("Recovered" :> recovered)

RowCounts ==
    { <<<<10>>, <<1>>, <<>>>>, <<<<20>>, <<>>, <<0>>>> }

Rows ==
    { Row("Country/Region", n, c[1], c[2], c[3]) :
        n \in { <<"Mainland", " ", "China">>, <<"China">> }, c \in RowCounts }
    \cup
    { Row("Country_Region", n, c[1], c[2], c[3]) :
        n \in { <<" ", "US", "\t">>, <<"Italy">> }, c \in RowCounts }
    \cup
    { ("Province/State" :> <<"Hubei">>) @@ ("Confirmed" :> <<10>>) @@
      ("Deaths" :> <<>>) @@ ("Recovered" :> <<>>) }

\* names and values a caller passes to Data.add and DataElement directly
DirectNames == { <<"China">>, <<"US">> }

DirectValues == { DataElement(10, 1, 0), DataElement(200, 0, 3) }

\* the CountryData constructed on its own, and the counts drawn for its days
SeriesName == <<"X">>

SeriesCounts == {0, 50, 80, 100, 120, 200}

Windows == (0 - MaxNegWindow)..MaxWindow

----------------------------------------------------------------------------
(* State *)

Store == [keys |-> keys, data |-> data, heap |-> heap]

Ret(op, status) ==
    [op |-> op, status |-> status, country |-> <<>>, average |-> 0,
     x |-> <<>>, y |-> <<>>, value |-> DataElement(0, 0, 0), countries |-> <<>>]

\* additions so far besides the seed's
Adds == Cardinality({i \in 1..Len(log) : log[i].via # "seed"})

\* DataElement(value) constructed and passed to Data.add: the store and log after
AddNew(S, lg, via, raw, country, time, value) ==
    LET h1 == Append(S.heap, value)
        S1 == DataAdd([S EXCEPT !.heap = h1], country, time, Len(h1))
    IN  [store |-> S1,
         log   |-> Append(lg, [via |-> via, raw |-> raw, country |-> country,
                               time |-> time, element |-> Len(h1),
                               value |-> value])]

RECURSIVE ApplySeed(_, _, _)
ApplySeed(S, lg, points) ==
    IF points = <<>> THEN [store |-> S, log |-> lg]
    ELSE LET p == Head(points)
             r == AddNew(S, lg, "seed", SeedCountry, SeedCountry, p.time,
                         DataElement(p.confirmed, 0, 0))
         IN  ApplySeed(r.store, r.log, Tail(points))

\* int(text) if text else 0
ParseCount(text) == IF text = <<>> THEN 0 ELSE text[1]

Init ==
    /\ pc = "rows"
    /\ keys = <<>>
    /\ data = EmptyMap
    /\ heap = <<>>
    /\ owned = {}
    /\ log = <<>>
    /\ ret = Ret("none", "ok")

\* one iteration of the row loop of Data.__init__
IngestRow ==
    /\ pc = "rows"
    /\ Adds < MaxAdds
    /\ \E time \in FileDays, dictionary \in Rows :
        LET found == find_key(dictionary, <<"Country/Region", "Country_Region">>)
        IN  IF found = None
            THEN /\ pc' = "failed"
                 /\ ret' = Ret("__init__", "AttributeError")
                 /\ UNCHANGED <<keys, data, heap, owned, log>>
            ELSE LET raw == found[1]
                     r == AddNew(Store, log, "ingest", raw, Canonicalize(raw), time,
                                 DataElement(ParseCount(dictionary["Confirmed"]),
                                             ParseCount(dictionary["Deaths"]),
                                             ParseCount(dictionary["Recovered"])))
                 IN  /\ keys' = r.store.keys
                     /\ data' = r.store.data
                     /\ heap' = r.store.heap
                     /\ log' = r.log
                     /\ ret' = Ret("__init__", "ok")
                     /\ UNCHANGED <<pc, owned>>

\* the five seed additions that end Data.__init__
SeedBackfill ==
    /\ pc = "rows"
    /\ LET r == ApplySeed(Store, log, SeedPoints)
       IN  /\ keys' = r.store.keys
           /\ data' = r.store.data
           /\ heap' = r.store.heap
           /\ log' = r.log
    /\ pc' = "done"
    /\ ret' = Ret("__init__", "ok")
    /\ UNCHANGED owned

\* a caller constructs a DataElement and keeps it
NewDataElement ==
    /\ pc = "done"
    /\ Cardinality(owned) < MaxOwned
    /\ \E v \in DirectValues :
        /\ heap' = Append(heap, v)
        /\ owned' = owned \cup {Len(heap) + 1}
    /\ ret' = Ret("DataElement", "ok")
    /\ UNCHANGED <<pc, keys, data, log>>

\* a caller calls Data.add with a DataElement it holds
CallAdd ==
    /\ pc = "done"
    /\ Adds < MaxAdds
    /\ \E country \in DirectNames, time \in FileDays, element \in owned :
        LET S1 == DataAdd(Store, country, time, element)
        IN  /\ keys' = S1.keys
            /\ data' = S1.data
            /\ heap' = S1.heap
            /\ log' = Append(log, [via |-> "direct", raw |-> country,
                                   country |-> country, time |-> time,
                                   element |-> element, value |-> heap[element]])
    /\ ret' = Ret("add", "ok")
    /\ UNCHANGED <<pc, owned>>

CallGetCountries ==
    /\ pc = "done"
    /\ LET r == get_countries(Store)
       IN  ret' = [Ret("get_countries", r.status) EXCEPT !.countries = r.countries]
    /\ UNCHANGED <<pc, keys, data, heap, owned, log>>

Next == IngestRow \/ SeedBackfill \/ NewDataElement \/ CallAdd \/ CallGetCountries

Spec == Init /\ [][Next]_vars

----------------------------------------------------------------------------
(* A CountryData on its own, queried *)

InitSeries ==
    /\ pc = "series"
    /\ keys = <<SeriesName>>
    /\ owned = {}
    /\ log = <<>>
    /\ ret = Ret("none", "ok")
    /\ \E D \in SUBSET (1..MaxDays) :
        \E f \in [D -> SeriesCounts] :
            LET days == SortedSet(D)
            IN  /\ heap = [i \in 1..Len(days) |-> DataElement(f[days[i]], 0, 0)]
                /\ data = (SeriesName :>
                              [d \in D |-> CHOOSE i \in 1..Len(days) : days[i] = d])

CallGetLast ==
    /\ pc = "series"
    /\ \E country \in DOMAIN data :
        LET r == get_last(data[country], heap)
        IN  ret' = [Ret("get_last", r.status) EXCEPT
                        !.country = country, !.value = r.value]
    /\ UNCHANGED <<pc, keys, data, heap, owned, log>>

CallGetData ==
    /\ pc = "series"
    /\ \E country \in DOMAIN data, average \in Windows :
        LET r == get_data(data[country], heap, average)
        IN  ret' = [Ret("get_data", r.status) EXCEPT
                        !.country = country, !.average = average,
                        !.x = r.x, !.y = r.y]
    /\ UNCHANGED <<pc, keys, data, heap, owned, log>>

NextSeries == CallGetLast \/ CallGetData

SpecSeries == InitSeries /\ [][NextSeries]_vars

----------------------------------------------------------------------------
(* Definitions the properties are stated with *)

RECURSIVE SetSum(_, _)
SetSum(S, f) ==
    IF S = {} THEN 0
    ELSE LET i == CHOOSE j \in S : TRUE IN f[i] + SetSum(S \ {i}, f)

\* the logged additions for a region and a day
Entries(c, t) == {i \in 1..Len(log) : log[i].country = c /\ log[i].time = t}

\* the field-wise sum of the records added for a region and a day
Total(c, t) ==
    LET E == Entries(c, t)
    IN  [confirmed |-> SetSum(E, [i \in E |-> log[i].value.confirmed]),
         deaths    |-> SetSum(E, [i \in E |-> log[i].value.deaths]),
         recovered |-> SetSum(E, [i \in E |-> log[i].value.recovered])]

\* what a Dataset holds: region -> day -> the Record's fields
Content(S) ==
    [c \in DOMAIN S.data |->
        [t \in DOMAIN S.data[c] |-> S.heap[S.data[c][t]]]]

EmptyStore == [keys |-> <<>>, data |-> EmptyMap, heap |-> <<>>]

\* the additions of lg applied to an empty Dataset, each with a Record of its own
RECURSIVE Replay(_)
Replay(lg) ==
    IF lg = <<>> THEN EmptyStore
    ELSE LET e == lg[Len(lg)]
         IN  AddNew(Replay(SubSeq(lg, 1, Len(lg) - 1)), <<>>, e.via, e.raw,
                    e.country, e.time, e.value).store

Reverse(s) == [i \in 1..Len(s) |-> s[Len(s) + 1 - i]]

Swap(s, i, j) == [s EXCEPT ![i] = s[j], ![j] = s[i]]

\* the series a query was made on, its days in chronological order (0-based)
QueriedSeries == data[ret.country]

N == Cardinality(DOMAIN QueriedSeries)

DayAt(i) ==
    CHOOSE d \in DOMAIN QueriedSeries :
        Cardinality({e \in DOMAIN QueriedSeries : e < d}) = i

C(i) == heap[QueriedSeries[DayAt(i)]].confirmed

Delta(i) == C(i) - (IF i = 0 THEN 0 ELSE C(i - 1))

Epoch ==
    IF \E i \in 0..(N - 1) : C(i) > 100
    THEN CHOOSE i \in 0..(N - 1) :
            /\ C(i) > 100
            /\ \A j \in 0..(i - 1) : C(j) <= 100
    ELSE N

RECURSIVE SumDelta(_, _)
SumDelta(i, j) == IF j < i THEN 0 ELSE SumDelta(i, j - 1) + Delta(j)

LatestConfirmed(c) ==
    LET last == CHOOSE d \in DOMAIN data[c] : \A e \in DOMAIN data[c] : e <= d
    IN  heap[data[c][last]].confirmed

\* raw names: the alias table's keys and values and other names, bare and padded
BareNames ==
    DOMAIN ALIASES \cup {ALIASES[k] : k \in DOMAIN ALIASES}
    \cup {<<"Italy">>, <<>>, <<"New", " ", "Zealand">>}

RawUniverse ==
    BareNames
    \cup {<<" ">> \o n : n \in BareNames}
    \cup {n \o <<"\t">> : n \in BareNames}
    \cup {<<"\n", " ">> \o n \o <<" ">> : n \in BareNames}

----------------------------------------------------------------------------
(* Properties *)

\* C1: after any sequence of additions, a region's day-map holds exactly one
\* Record per distinct day added, a Record of its own, and each of its fields is
\* the sum of that field over all the records added for that region and day.
C1_AddDaySums ==
    /\ DOMAIN data = {log[i].country : i \in 1..Len(log)}
    /\ \A c \in DOMAIN data :
        /\ DOMAIN data[c] = {log[i].time : i \in {j \in 1..Len(log) : log[j].country = c}}
        /\ \A t \in DOMAIN data[c] : heap[data[c][t]] = Total(c, t)
        /\ \A t1, t2 \in DOMAIN data[c] : t1 # t2 => data[c][t1] # data[c][t2]

\* C1 witness: confirmed 10 and 20, deaths 1 and 0 added for one region and day
\* are stored as confirmed 30, deaths 1.
C1_Witness ==
    \E c \in DOMAIN data : \E t \in DOMAIN data[c] :
        /\ heap[data[c][t]] = DataElement(30, 1, 0)
        /\ \E i, j \in Entries(c, t) :
            /\ log[i].value = DataElement(10, 1, 0)
            /\ log[j].value = DataElement(20, 0, 0)

\* C2: get_data(w) with w >= 0 on a series of n days returns offsets and values
\* of one length, max(n - w, 0), and raises nothing.
C2_LengthLaw ==
    (ret.op = "get_data" /\ ret.average >= 0) =>
        /\ ret.status = "ok"
        /\ Len(ret.x) = Len(ret.y)
        /\ Len(ret.x) = (IF N - ret.average > 0 THEN N - ret.average ELSE 0)

\* C2 witness: a window at least as long as a non-empty series gives two empty
\* sequences.
C2_Witness ==
    /\ ret.op = "get_data"
    /\ N >= 1
    /\ ret.average >= N
    /\ ret.status = "ok"
    /\ ret.x = <<>>
    /\ ret.y = <<>>

\* C3: for 0 <= w <= n the offsets are i - e for i = 0 .. n-1-w in increasing
\* order, e the smallest index whose count is strictly above 100, or n if none.
C3_Offsets ==
    (ret.op = "get_data" /\ ret.average >= 0 /\ ret.average <= N) =>
        ret.x = [i \in 1..(N - ret.average) |-> (i - 1) - Epoch]

\* C3 witness: a count of exactly 100 precedes the first count above 100.
C3_Witness ==
    /\ ret.op = "get_data"
    /\ ret.average = 0
    /\ Epoch < N
    /\ \E i \in 0..(Epoch - 1) : C(i) = 100
    /\ ret.x[1] = 0 - Epoch

\* C4: the values of get_data(0) on a non-empty series are the daily deltas
\* C[i] - C[i-1] (C[-1] = 0), unclamped, and their running sum is C[i].
C4_DeltaReconstruction ==
    (ret.op = "get_data" /\ ret.average = 0 /\ N > 0) =>
        /\ ret.status = "ok"
        /\ Len(ret.y) = N
        /\ \A i \in 0..(N - 1) :
            /\ ret.y[i + 1] = [num |-> Delta(i), den |-> 1]
            /\ SetSum(0..i, [j \in 0..i |-> ret.y[j + 1].num]) = C(i)

\* C4 witness: the counts decrease from one day to the next.
C4_Witness ==
    /\ ret.op = "get_data"
    /\ ret.average = 0
    /\ \E i \in 1..(N - 1) : C(i) < C(i - 1) /\ ret.y[i + 1].num < 0

\* C5: for 0 <= w < n the i-th value is the mean of the w+1 deltas
\* delta[i..i+w]: (w+1) times it is their sum, which is C[i+w] - C[i-1].
C5_ForwardMean ==
    (ret.op = "get_data" /\ ret.average >= 0 /\ ret.average < N) =>
        /\ ret.status = "ok"
        /\ Len(ret.y) = N - ret.average
        /\ \A i \in 0..(N - 1 - ret.average) :
            /\ ret.y[i + 1].den > 0
            /\ (ret.average + 1) * ret.y[i + 1].num
                    = SumDelta(i, i + ret.average) * ret.y[i + 1].den
            /\ SumDelta(i, i + ret.average)
                    = C(i + ret.average) - (IF i = 0 THEN 0 ELSE C(i - 1))

\* C5 witness: a window of two or more deltas that differ, not at the start.
C5_Witness ==
    /\ ret.op = "get_data"
    /\ ret.average >= 1
    /\ N >= ret.average + 2
    /\ Delta(1) # Delta(1 + ret.average)
    /\ Delta(0) # Delta(1 + ret.average)
    /\ ret.y[2].den = ret.average + 1

\* C6: get_countries returns every region exactly once, the latest confirmed
\* count (that of the region's maximum day) non-increasing along the result.
C6_Ranked ==
    ret.op = "get_countries" =>
        /\ ret.status = "ok"
        /\ Len(ret.countries) = Cardinality(DOMAIN data)
        /\ {ret.countries[i] : i \in 1..Len(ret.countries)} = DOMAIN data
        /\ \A i, j \in 1..Len(ret.countries) :
            i < j => LatestConfirmed(ret.countries[i])
                        >= LatestConfirmed(ret.countries[j])

\* C6 witness: three regions with different latest counts, returned in an
\* order that is not the order they were inserted in.
C6_Witness ==
    /\ ret.op = "get_countries"
    /\ Len(ret.countries) = 3
    /\ ret.countries # keys
    /\ LatestConfirmed(ret.countries[1]) > LatestConfirmed(ret.countries[2])
    /\ LatestConfirmed(ret.countries[2]) > LatestConfirmed(ret.countries[3])

\* C7 (as claimed): get_data(w) with w negative fails, returning no offsets and
\* no values.
C7_NegativeWindowFails ==
    (ret.op = "get_data" /\ ret.average < 0) =>
        /\ ret.status # "ok"
        /\ ret.x = <<>>
        /\ ret.y = <<>>

\* C8 (as claimed): on a series with no days, get_last and get_data(w), w >= 0,
\* fail instead of returning.
C8_EmptySeriesFails ==
    (ret.op \in {"get_last", "get_data"} /\ ret.average >= 0 /\ N = 0) =>
        ret.status # "ok"

\* canonicalization is idempotent
Idempotent ==
    \A raw \in RawUniverse :
        Canonicalize(Canonicalize(raw)) = Canonicalize(raw)

\* C9 (as claimed): canonicalization is idempotent and, whatever additions were
\* made, direct calls of Data.add included, no key of the region map is a key
\* of the alias table.
C9_NoAliasKeys ==
    /\ Idempotent
    /\ \A k \in DOMAIN data : k \notin DOMAIN ALIASES

\* C9 (amended): canonicalization is idempotent; every ingested row is stored
\* under its canonical name, which is no key of the alias table, so that rows
\* (and the seed) whose names have one canonical form accumulate into one
\* region; a key of the region map that is a key of the alias table was passed
\* as such to Data.add by a direct call.
C9_CanonicalKeys ==
    /\ Idempotent
    /\ \A i \in 1..Len(log) :
        log[i].via \in {"ingest", "seed"} =>
            /\ log[i].country \notin DOMAIN ALIASES
            /\ Strip(log[i].country) = log[i].country
            /\ log[i].country \in DOMAIN data
            /\ log[i].time \in DOMAIN data[log[i].country]
            /\ \A j \in 1..Len(log) :
                (/\ log[j].via \in {"ingest", "seed"}
                 /\ Canonicalize(log[j].raw) = Canonicalize(log[i].raw))
                    => log[j].country = log[i].country
    /\ \A k \in DOMAIN data :
        k \in DOMAIN ALIASES =>
            \E i \in 1..Len(log) : log[i].via = "direct" /\ log[i].country = k

\* C9 witness: after construction, rows named "Mainland China" and "China" and
\* the seed are in the one region "China".
C9_Witness ==
    /\ pc = "done"
    /\ \E i, j \in 1..Len(log) :
        /\ log[i].via = "ingest" /\ log[i].raw = <<"Mainland", " ", "China">>
        /\ log[j].via = "ingest" /\ log[j].raw = <<"China">>
        /\ log[i].country = SeedCountry
        /\ log[j].country = SeedCountry
    /\ DOMAIN data = {SeedCountry}

\* C10: the Dataset content is that of the same additions, each with a Record
\* of its own, applied in the same order, in reverse order and in every order
\* that exchanges two of them; and no Record passed to Data.add is stored in a
\* day-map or changed.
C10_OrderIndependent ==
    /\ Content(Replay(log)) = Content(Store)
    /\ Content(Replay(Reverse(log))) = Content(Store)
    /\ \A i, j \in 1..Len(log) :
        i < j => Content(Replay(Swap(log, i, j))) = Content(Store)
    /\ \A i \in 1..Len(log) :
        /\ heap[log[i].element] = log[i].value
        /\ \A c \in DOMAIN data : \A t \in DOMAIN data[c] :
            data[c][t] # log[i].element

\* C10 witness: one Record passed to Data.add twice, for one region and day
\* that the seed also added to.
C10_Witness ==
    \E i, j \in 1..Len(log) :
        /\ i # j
        /\ log[i].element = log[j].element
        /\ log[i].country = log[j].country
        /\ log[i].time = log[j].time
        /\ \E k \in 1..Len(log) :
            /\ log[k].via = "seed"
            /\ log[k].country = log[i].country
            /\ log[k].time = log[i].time

====
